---- MODULE Spec2Model ----
(***************************************************************************)
(* A model of the basic_cleaning pipeline step                             *)
(*   src/src/basic_cleaning/run.py          clean_dataset,                 *)
(*                                          download_artifact,             *)
(*                                          save_artifact, main            *)
(*   src/components/wandb_utils/sanitize_path.py   sanitize_path           *)
(*                                                                         *)
(* Strings are sequences of one-character strings.  A data frame is a      *)
(* record of its column names and its rows; data frames live in a heap of  *)
(* objects so that aliasing (the caller's frame against the frame          *)
(* clean_dataset works on) is visible.                                     *)
(***************************************************************************)
EXTENDS Integers, Sequences, FiniteSets, TLC

VARIABLES
    \* ---- sanitize_path ----
    s,            \* the argument of sanitize_path
    environ,      \* os.environ: variable name -> value
    cwd,          \* os.getcwd()
    san_pc,       \* position inside sanitize_path
    san_ret,      \* the value sanitize_path returned
    \* ---- clean_dataset ----
    heap,         \* the data-frame objects: object id -> frame
    arg_df,       \* the object the caller passed as df
    orig,         \* the value of the caller's frame when clean_dataset was called
    df,           \* the object the local name df is bound to
    min_price,    \* argument min_price
    max_price,    \* argument max_price
    idx,          \* the boolean mask computed on line 20
    cl_pc,        \* position inside clean_dataset
    cl_ret,       \* object returned by clean_dataset (0: none)
    cl_exc,       \* exception raised by clean_dataset ("none": none)
    first_ret,    \* object returned by an earlier clean_dataset call (0: none)
    \* ---- save_artifact and the tracking service ----
    fs,           \* names of the files present on the local disk
    file_path,    \* argument file_path of save_artifact
    art,          \* the wandb.Artifact under construction
    sv_pc,        \* position inside save_artifact
    sv_exc,       \* exception raised by save_artifact ("none": none)
    run,          \* the run context: "none", "open", "closed"
    logged,       \* artifacts registered against the run
    ops,          \* the run state seen by each artifact operation, in order
    \* ---- main ----
    pc,           \* position inside main
    known,        \* whether the tracking service knows args.input_artifact
    remote,       \* the table stored in the input artifact
    args,         \* the parsed command line: min_price and max_price
    trace,        \* the steps of main started so far, in order
    failed,       \* the step that raised ("none": none)
    error         \* the exception that left main ("none": none)

vars == <<s, environ, cwd, san_pc, san_ret,
          heap, arg_df, orig, df, min_price, max_price, idx, cl_pc, cl_ret,
          cl_exc, first_ret,
          fs, file_path, art, sv_pc, sv_exc, run, logged, ops,
          pc, known, remote, args, trace, failed, error>>

san_vars  == <<s, environ, cwd, san_pc, san_ret>>
cl_vars   == <<heap, arg_df, orig, df, min_price, max_price, idx, cl_pc, cl_ret,
               cl_exc, first_ret>>
sv_vars   == <<file_path, art, sv_pc, sv_exc>>
svc_vars  == <<run, logged, ops>>
main_vars == <<pc, known, remote, args, trace, failed, error>>

(***************************************************************************)
(* Bounds of the model.                                                    *)
(***************************************************************************)
MaxLen  == 4     \* longest argument string of sanitize_path that is enumerated
MaxRows == 2     \* most rows of an enumerated data frame
MaxPrice == 3    \* largest enumerated price and price bound

(***************************************************************************)
(* sanitize_path                                                           *)
(***************************************************************************)
Alphabet  == {"/", "~", "$", ".", "x", "F", "{", "}"}
\* \w of the regular expression, as far as the strings of the model go
WordChars == {"x", "F", "O", "H", "M", "E", "b", "a", "r", "t", "m", "p", "h", "u"}

RECURSIVE StringsOfLen(_)
StringsOfLen(n) ==
    IF n = 0 THEN {<< >>}
    ELSE {Append(p, c) : p \in StringsOfLen(n - 1), c \in Alphabet}

Strings == UNION {StringsOfLen(n) : n \in 0..MaxLen}

StartsWith(str, pre) ==
    /\ Len(str) >= Len(pre)
    /\ SubSeq(str, 1, Len(pre)) = pre

Tail_from(str, i) == SubSeq(str, i, Len(str))

\* str.find(c, from): the first index >= from holding c, 0 when there is none
RECURSIVE Find(_, _, _)
Find(str, c, from) ==
    IF from > Len(str) THEN 0
    ELSE IF str[from] = c THEN from
    ELSE Find(str, c, from + 1)

\* the index after the longest run of word characters starting at j
RECURSIVE WordEnd(_, _)
WordEnd(path, j) ==
    IF j <= Len(path) /\ path[j] \in WordChars THEN WordEnd(path, j + 1) ELSE j

\* _varprog = \$(\w+|\{[^}]*\}) matched at position p: the index after the
\* match, 0 when it does not match there
MatchEnd(path, p) ==
    IF path[p] # "$" \/ p = Len(path) THEN 0
    ELSE IF path[p + 1] \in WordChars THEN WordEnd(path, p + 1)
    ELSE IF path[p + 1] = "{"
         THEN LET close == Find(path, "}", p + 2)
              IN  IF close = 0 THEN 0 ELSE close + 1
    ELSE 0

\* _varprog.search(path, i): the leftmost match at or after i, 0 when none
RECURSIVE Search(_, _)
Search(path, i) ==
    IF i > Len(path) THEN 0
    ELSE IF MatchEnd(path, i) # 0 THEN i
    ELSE Search(path, i + 1)

\* the loop of posixpath.expandvars, from scan position i
RECURSIVE expandvars_from(_, _, _)
expandvars_from(path, i, env) ==
    LET p == Search(path, i) IN
    IF p = 0 THEN path
    ELSE LET j    == MatchEnd(path, p)
             raw  == SubSeq(path, p + 1, j - 1)
             name == IF raw[1] = "{" THEN SubSeq(raw, 2, Len(raw) - 1) ELSE raw
         IN  IF name \in DOMAIN env
             THEN LET head == SubSeq(path, 1, p - 1) \o env[name]
                  IN  expandvars_from(head \o Tail_from(path, j), Len(head) + 1, env)
             ELSE expandvars_from(path, j, env)

expandvars(path, env) == expandvars_from(path, 1, env)

\* the password database: pwd.getpwuid(os.getuid()).pw_dir and pwd.getpwnam
UidHome == <<"/", "h", "/", "u">>
PwNam   == (<<"x">> :> <<"/", "h", "/", "x">>)
HOME    == <<"H", "O", "M", "E">>

\* str.rstrip('/')
RECURSIVE rstrip_slash(_)
rstrip_slash(str) ==
    IF str # << >> /\ str[Len(str)] = "/"
    THEN rstrip_slash(SubSeq(str, 1, Len(str) - 1))
    ELSE str

\* posixpath.expanduser
expanduser(path, env) ==
    IF ~StartsWith(path, <<"~">>) THEN path
    ELSE LET f == Find(path, "/", 2)
             i == IF f = 0 THEN Len(path) + 1 ELSE f
             name == SubSeq(path, 2, i - 1)
             found == IF i = 2 THEN TRUE ELSE name \in DOMAIN PwNam
             userhome == IF i = 2
                         THEN IF HOME \in DOMAIN env THEN env[HOME] ELSE UidHome
                         ELSE PwNam[name]
         IN  IF ~found THEN path
             ELSE LET r == rstrip_slash(userhome) \o Tail_from(path, i)
                  IN  IF r = << >> THEN <<"/">> ELSE r

isabs(path) == StartsWith(path, <<"/">>)

\* posixpath.join(a, b)
join(a, b) ==
    IF isabs(b) THEN b
    ELSE IF a = << >> \/ a[Len(a)] = "/" THEN a \o b
    ELSE a \o <<"/">> \o b

\* path.split('/')
RECURSIVE split_slash(_)
split_slash(path) ==
    LET f == Find(path, "/", 1) IN
    IF f = 0 THEN <<path>>
    ELSE <<SubSeq(path, 1, f - 1)>> \o split_slash(Tail_from(path, f + 1))

\* '/'.join(comps)
RECURSIVE join_slash(_)
join_slash(comps) ==
    IF comps = << >> THEN << >>
    ELSE IF Len(comps) = 1 THEN comps[1]
    ELSE comps[1] \o <<"/">> \o join_slash(Tail(comps))

\* the component loop of posixpath.normpath
RECURSIVE norm_comps(_, _, _)
norm_comps(comps, new_comps, initial_slashes) ==
    IF comps = << >> THEN new_comps
    ELSE LET comp == Head(comps) IN
         IF comp = << >> \/ comp = <<".">>
         THEN norm_comps(Tail(comps), new_comps, initial_slashes)
         ELSE IF \/ comp # <<".", ".">>
                 \/ (initial_slashes = 0 /\ new_comps = << >>)
                 \/ (new_comps # << >> /\ new_comps[Len(new_comps)] = <<".", ".">>)
         THEN norm_comps(Tail(comps), Append(new_comps, comp), initial_slashes)
         ELSE IF new_comps # << >>
         THEN norm_comps(Tail(comps), SubSeq(new_comps, 1, Len(new_comps) - 1),
                         initial_slashes)
         ELSE norm_comps(Tail(comps), new_comps, initial_slashes)

\* posixpath.normpath
normpath(path) ==
    IF path = << >> THEN <<".">>
    ELSE LET initial_slashes ==
                 IF ~isabs(path) THEN 0
                 ELSE IF StartsWith(path, <<"/", "/">>)
                         /\ ~StartsWith(path, <<"/", "/", "/">>) THEN 2
                 ELSE 1
             body == join_slash(norm_comps(split_slash(path), << >>, initial_slashes))
             r == [k \in 1..initial_slashes |-> "/"] \o body
         IN  IF r = << >> THEN <<".">> ELSE r

\* posixpath.abspath, dir being os.getcwd()
abspath(path, dir) ==
    IF ~isabs(path) THEN normpath(join(dir, path)) ELSE normpath(path)

\* sanitize_path with the two expansions in the opposite order
sanitize_path_user_first(str, env, dir) ==
    abspath(expandvars(expanduser(str, env), env), dir)

\* sanitize_path(s), line 16
sanitize_path(str, env, dir) ==
    abspath(expanduser(expandvars(str, env), env), dir)

\* the environments and working directories the model starts from
EnvFoo   == (<<"F", "O", "O">> :> <<"/", "t", "m", "p">>)
            @@ (HOME :> <<"/", "h", "/", "u">>)
EnvTilde == (<<"x">> :> <<"~">>) @@ (<<"F">> :> <<"/", "x">>)
EnvNest  == (<<"x">> :> <<"$", "F">>) @@ (<<"F">> :> <<".", ".">>)
            @@ (HOME :> <<"/", "h", "/", "u", "/">>)
Environs == {EnvFoo, EnvTilde, EnvNest}
Cwds     == {<<"/">>, <<"/", "w">>}
FooBar   == <<"$", "F", "O", "O", "/", "b", "a", "r">>

SanIdle ==
    /\ s = << >> /\ environ = EnvFoo /\ cwd = <<"/">>
    /\ san_pc = "idle" /\ san_ret = << >>

SanInit ==
    /\ s \in Strings \cup {FooBar}
    /\ environ \in Environs
    /\ cwd \in Cwds
    /\ san_pc = "call"
    /\ san_ret = << >>

\* one call of sanitize_path
SanitizePath ==
    /\ san_pc = "call"
    /\ san_ret' = sanitize_path(s, environ, cwd)
    /\ san_pc' = "return"
    /\ UNCHANGED <<s, environ, cwd, cl_vars, fs, sv_vars, svc_vars, main_vars>>

(***************************************************************************)
(* clean_dataset                                                           *)
(*                                                                         *)
(* A cell is a record tagged by its type: a number, the missing value NaN, *)
(* a string holding the text "y-m-d", a Timestamp, or the missing          *)
(* timestamp NaT.  A frame is [columns, rows]; a row carries its index     *)
(* label and its cells by column name.                                     *)
(***************************************************************************)
NaN      == [t |-> "NaN"]
NaT      == [t |-> "NaT"]
Num(n)   == [t |-> "num", v |-> n]
Str(d)   == [t |-> "str", v |-> d]
Ts(d)    == [t |-> "ts", v |-> d]

DaysInMonth(y, m) ==
    IF m = 2 THEN (IF y % 4 = 0 /\ (y % 100 # 0 \/ y % 400 = 0) THEN 29 ELSE 28)
    ELSE IF m \in {4, 6, 9, 11} THEN 30 ELSE 31

\* whether the text "y-m-d" names a day of the calendar
ValidDate(d) ==
    /\ d[2] \in 1..12
    /\ d[3] \in 1..DaysInMonth(d[1], d[2])

\* whether pd.to_datetime rejects the cell (errors="raise", the default)
Unparsable(c) == c.t = "str" /\ ~ValidDate(c.v)

\* pd.to_datetime on one cell that can be converted
to_datetime_cell(c) ==
    IF c.t = "str" THEN Ts(c.v)
    ELSE IF c.t = "ts" THEN c
    ELSE NaT

\* pd.to_datetime(series, errors="coerce"): what cannot be parsed becomes NaT
to_datetime_coerce(series) ==
    [ok  |-> TRUE,
     val |-> [i \in 1..Len(series) |->
                IF Unparsable(series[i]) THEN NaT ELSE to_datetime_cell(series[i])]]

\* pd.to_datetime(series): raises (ok = FALSE) when a value cannot be parsed
to_datetime(series) ==
    IF \E i \in 1..Len(series) : Unparsable(series[i])
    THEN [ok |-> FALSE, val |-> << >>]
    ELSE [ok |-> TRUE, val |-> [i \in 1..Len(series) |-> to_datetime_cell(series[i])]]

\* Series.between(left, right, inclusive="neither")
between_exclusive(c, left, right) ==
    c.t = "num" /\ c.v > left /\ c.v < right

\* Series.between(left, right) on one cell: (c >= left) & (c <= right),
\* every comparison with NaN being False
between(c, left, right) ==
    c.t = "num" /\ c.v >= left /\ c.v <= right

\* df[idx]: the rows whose mask entry is True, labels kept
RECURSIVE SelectRows(_, _)
SelectRows(rows, mask) ==
    IF rows = << >> THEN << >>
    ELSE IF Head(mask) THEN <<Head(rows)>> \o SelectRows(Tail(rows), Tail(mask))
    ELSE SelectRows(Tail(rows), Tail(mask))

\* the frames and price bounds the model starts from
PriceCells  == {NaN} \cup {Num(n) : n \in 1..MaxPrice}
ReviewCells == {NaN, Str(<<2019, 12, 30>>), Str(<<2019, 2, 30>>)}
Columns     == {"name", "price", "last_review"}
RowCells    == [name : {Str(<<"n">>)}, price : PriceCells, last_review : ReviewCells]

MkFrame(cells) ==
    [columns |-> Columns,
     rows    |-> [i \in 1..Len(cells) |-> [index |-> i - 1, cells |-> cells[i]]]]

FramesOfLen(n) == {MkFrame(c) : c \in [1..n -> RowCells]}
BoundedFrames  == UNION {FramesOfLen(n) : n \in 0..MaxRows}

ExampleRow(p, d) == [name |-> Str(<<"n">>), price |-> Num(p), last_review |-> d]
\* prices 5, 50, 500, 5000
ExampleFrame ==
    MkFrame(<<ExampleRow(5, NaN), ExampleRow(50, Str(<<2019, 5, 21>>)),
              ExampleRow(500, NaN), ExampleRow(5000, Str(<<2019, 7, 5>>))>>)
\* a retained row whose last_review names no day
BadDateFrame ==
    MkFrame(<<ExampleRow(50, Str(<<2019, 2, 30>>)), ExampleRow(500, NaN)>>)
NoPriceFrame ==
    [columns |-> {"name", "last_review"},
     rows    |-> <<[index |-> 0,
                    cells |-> [name |-> Str(<<"n">>), last_review |-> NaN]]>>]
NoReviewFrame ==
    [columns |-> {"name", "price"},
     rows    |-> <<[index |-> 0,
                    cells |-> [name |-> Str(<<"n">>), price |-> Num(50)]]>>]
ExampleFrames == {ExampleFrame, BadDateFrame, NoPriceFrame, NoReviewFrame}

CleanInputs ==
    (BoundedFrames \X (1..MaxPrice) \X (1..MaxPrice))
    \cup (ExampleFrames \X {10} \X {1000})

CleanIdle ==
    /\ heap = << >> /\ arg_df = 0 /\ orig = MkFrame(<< >>) /\ df = 0
    /\ min_price = 0 /\ max_price = 0 /\ idx = << >>
    /\ cl_pc = "idle" /\ cl_ret = 0 /\ cl_exc = "none" /\ first_ret = 0

CleanInit ==
    \E inp \in CleanInputs :
        /\ heap = <<inp[1]>> /\ arg_df = 1 /\ orig = inp[1] /\ df = 1
        /\ min_price = inp[2] /\ max_price = inp[3] /\ idx = << >>
        /\ cl_pc = "line20" /\ cl_ret = 0 /\ cl_exc = "none" /\ first_ret = 0

other_than_clean == <<san_vars, fs, sv_vars, svc_vars, main_vars>>

\* line 20: idx = df['price'].between(min_price, max_price)
CleanBetween ==
    /\ cl_pc = "line20"
    /\ IF "price" \in heap[df].columns
       THEN /\ idx' = [i \in 1..Len(heap[df].rows) |->
                          between(heap[df].rows[i].cells["price"],
                                  min_price, max_price)]
            /\ cl_pc' = "line21"
            /\ UNCHANGED cl_exc
       ELSE /\ cl_exc' = "KeyError"
            /\ cl_pc' = "raised"
            /\ UNCHANGED idx
    /\ UNCHANGED <<heap, arg_df, orig, df, min_price, max_price, cl_ret, first_ret>>
    /\ UNCHANGED other_than_clean

\* df.drop(df[~idx].index, inplace=True): the caller's object is filtered
CleanFilterInPlace ==
    /\ cl_pc = "line21"
    /\ heap' = [heap EXCEPT ![df].rows = SelectRows(heap[df].rows, idx)]
    /\ cl_pc' = "line24"
    /\ UNCHANGED <<arg_df, orig, df, min_price, max_price, idx, cl_ret, cl_exc,
                   first_ret>>
    /\ UNCHANGED other_than_clean

\* df = df[idx].reset_index(): the old labels become a column of the result
CleanFilterResetIndex ==
    /\ cl_pc = "line21"
    /\ LET col  == IF "index" \in heap[df].columns THEN "level_0" ELSE "index"
           kept == SelectRows(heap[df].rows, idx)
       IN  heap' = Append(heap,
                     [columns |-> heap[df].columns \cup {col},
                      rows    |-> [i \in 1..Len(kept) |->
                                     [index |-> i - 1,
                                      cells |-> (col :> Num(kept[i].index))
                                                @@ kept[i].cells]]])
    /\ df' = Len(heap) + 1
    /\ cl_pc' = "line24"
    /\ UNCHANGED <<arg_df, orig, min_price, max_price, idx, cl_ret, cl_exc,
                   first_ret>>
    /\ UNCHANGED other_than_clean

\* line 21: df = df[idx].copy(): a new object, the local name rebound to it
CleanFilterCopy ==
    /\ cl_pc = "line21"
    /\ heap' = Append(heap, [columns |-> heap[df].columns,
                             rows    |-> SelectRows(heap[df].rows, idx)])
    /\ df' = Len(heap) + 1
    /\ cl_pc' = "line24"
    /\ UNCHANGED <<arg_df, orig, min_price, max_price, idx, cl_ret, cl_exc,
                   first_ret>>
    /\ UNCHANGED other_than_clean

\* line 24: df['last_review'] = pd.to_datetime(df['last_review'])
CleanToDatetime ==
    /\ cl_pc = "line24"
    /\ IF "last_review" \notin heap[df].columns
       THEN /\ cl_exc' = "KeyError"
            /\ cl_pc' = "raised"
            /\ UNCHANGED heap
       ELSE LET rows == heap[df].rows
                conv == to_datetime([i \in 1..Len(rows) |->
                                       rows[i].cells["last_review"]])
            IN  IF ~conv.ok
                THEN /\ cl_exc' = "ValueError"
                     /\ cl_pc' = "raised"
                     /\ UNCHANGED heap
                ELSE /\ heap' = [heap EXCEPT ![df].rows =
                                   [i \in 1..Len(rows) |->
                                      [rows[i] EXCEPT !.cells["last_review"] =
                                         conv.val[i]]]]
                     /\ cl_pc' = "line26"
                     /\ UNCHANGED cl_exc
    /\ UNCHANGED <<arg_df, orig, df, min_price, max_price, idx, cl_ret, first_ret>>
    /\ UNCHANGED other_than_clean

\* line 26: return df
CleanReturn ==
    /\ cl_pc = "line26"
    /\ cl_ret' = df
    /\ cl_pc' = "returned"
    /\ UNCHANGED <<heap, arg_df, orig, df, min_price, max_price, idx, cl_exc,
                   first_ret>>
    /\ UNCHANGED other_than_clean

\* clean_dataset applied to its own result, with the same bounds
CleanAgain ==
    /\ pc = "idle"
    /\ cl_pc = "returned"
    /\ first_ret = 0
    /\ first_ret' = cl_ret
    /\ arg_df' = cl_ret
    /\ orig' = heap[cl_ret]
    /\ df' = cl_ret
    /\ idx' = << >>
    /\ cl_ret' = 0
    /\ cl_pc' = "line20"
    /\ UNCHANGED <<heap, min_price, max_price, cl_exc>>
    /\ UNCHANGED other_than_clean

CleanStep ==
    \/ CleanBetween
    \/ CleanFilterCopy
    \/ CleanToDatetime
    \/ CleanReturn

(***************************************************************************)
(* save_artifact and download_artifact                                     *)
(***************************************************************************)
StagingFile  == "clean_sample.csv"
DownloadFile == "sample.csv"
Paths        == {StagingFile, DownloadFile, "missing.csv"}
OutputNames  == {"clean_sample.csv", "clean.csv"}

other_than_save == <<san_vars, cl_vars, fs, pc, known, remote, args, trace, failed, error>>

\* line 40: artifact = wandb.Artifact(artifact_name, type=..., description=...)
SaveNewArtifact ==
    /\ sv_pc = "line40"
    /\ art' = [art EXCEPT !.files = {}]
    /\ sv_pc' = "line41"
    /\ UNCHANGED <<file_path, sv_exc, svc_vars>>
    /\ UNCHANGED other_than_save

\* artifact.add_file without the check that the path names a file
SaveAddFileUnchecked ==
    /\ sv_pc = "line41"
    /\ art' = [art EXCEPT !.files = @ \cup {file_path}]
    /\ sv_pc' = "line42"
    /\ UNCHANGED <<file_path, sv_exc, svc_vars>>
    /\ UNCHANGED other_than_save

\* line 41: artifact.add_file(file_path), which raises when the path names no file
SaveAddFile ==
    /\ sv_pc = "line41"
    /\ IF file_path \in fs
       THEN /\ art' = [art EXCEPT !.files = @ \cup {file_path}]
            /\ sv_pc' = "line42"
            /\ UNCHANGED sv_exc
       ELSE /\ sv_exc' = "LocalIO"
            /\ sv_pc' = "raised"
            /\ UNCHANGED art
    /\ UNCHANGED <<file_path, svc_vars>>
    /\ UNCHANGED other_than_save

\* line 42: run.log_artifact(artifact), which the tracking service may refuse
SaveLogArtifact ==
    /\ sv_pc = "line42"
    /\ ops' = Append(ops, <<"log_artifact", run>>)
    /\ \E ok \in BOOLEAN :
          IF ok /\ run = "open"
          THEN /\ logged' = logged \cup {art}
               /\ sv_pc' = "returned"
               /\ UNCHANGED sv_exc
          ELSE /\ sv_exc' = "ServiceUnavailable"
               /\ sv_pc' = "raised"
               /\ UNCHANGED logged
    /\ UNCHANGED <<file_path, art, run>>
    /\ UNCHANGED other_than_save

SaveStep ==
    \/ SaveNewArtifact
    \/ SaveAddFile
    \/ SaveLogArtifact

NoArt == [name |-> "", type |-> "", description |-> "", files |-> {}]

SaveIdle ==
    /\ file_path = "" /\ art = NoArt /\ sv_pc = "idle" /\ sv_exc = "none"

SaveInit ==
    /\ file_path \in Paths
    /\ \E n \in OutputNames :
          art = [name |-> n, type |-> "clean_sample", description |-> "cleaned",
                 files |-> {}]
    /\ sv_pc = "line40"
    /\ sv_exc = "none"

(***************************************************************************)
(* main                                                                    *)
(***************************************************************************)
Order == <<"open", "fetch", "load", "clean", "write", "publish", "delete">>

MainIdle ==
    /\ pc = "idle" /\ known = TRUE /\ remote = MkFrame(<< >>)
    /\ args = [min_price |-> 0, max_price |-> 0]
    /\ trace = << >> /\ failed = "none" /\ error = "none"

MainInit ==
    /\ pc = "line48"
    /\ known \in BOOLEAN
    /\ remote \in ExampleFrames
    /\ args \in {[min_price |-> 10, max_price |-> 1000],
                 [min_price |-> 50, max_price |-> 500]}
    /\ trace = << >> /\ failed = "none" /\ error = "none"

\* a step of main raises: the with block is left, the exception pending
Raise(step, exc) ==
    /\ failed' = step
    /\ error' = exc
    /\ pc' = "exit"

\* line 48: with wandb.init(job_type="basic_cleaning", config=args) as run
MainOpenRun ==
    /\ pc = "line48"
    /\ trace' = Append(trace, "open")
    /\ \E ok \in BOOLEAN :
          IF ok
          THEN /\ run' = "open"
               /\ pc' = "line32"
               /\ UNCHANGED <<failed, error>>
          ELSE /\ failed' = "open"
               /\ error' = "ServiceUnavailable"
               /\ pc' = "done"
               /\ UNCHANGED run
    /\ UNCHANGED <<known, remote, args, logged, ops, fs>>
    /\ UNCHANGED <<san_vars, cl_vars, sv_vars>>

\* lines 50, 31-32: download_artifact: artifact = run.use_artifact(artifact_name)
DownloadUseArtifact ==
    /\ pc = "line32"
    /\ trace' = Append(trace, "fetch")
    /\ ops' = Append(ops, <<"use_artifact", run>>)
    /\ \E ok \in BOOLEAN :
          IF ~known THEN Raise("fetch", "ArtifactNotFound")
          ELSE IF ~ok THEN Raise("fetch", "ServiceUnavailable")
          ELSE /\ pc' = "line33"
               /\ UNCHANGED <<failed, error>>
    /\ UNCHANGED <<known, remote, args, run, logged, fs>>
    /\ UNCHANGED <<san_vars, cl_vars, sv_vars>>

\* lines 33-34: artifact_path = artifact.file(); return artifact_path
DownloadFilePath ==
    /\ pc = "line33"
    /\ \E ok \in BOOLEAN :
          IF ok
          THEN /\ fs' = fs \cup {DownloadFile}
               /\ pc' = "line51"
               /\ UNCHANGED <<failed, error>>
          ELSE /\ Raise("fetch", "ServiceUnavailable")
               /\ UNCHANGED fs
    /\ UNCHANGED <<known, remote, args, trace, svc_vars>>
    /\ UNCHANGED <<san_vars, cl_vars, sv_vars>>

\* line 51: df = pd.read_csv(artifact_path)
MainReadCsv ==
    /\ pc = "line51"
    /\ trace' = Append(trace, "load")
    /\ \E ok \in BOOLEAN :
          IF ok /\ DownloadFile \in fs
          THEN /\ heap' = <<remote>>
               /\ df' = 1
               /\ pc' = "line55"
               /\ UNCHANGED <<failed, error>>
          ELSE /\ Raise("load", "LocalIO")
               /\ UNCHANGED <<heap, df>>
    /\ UNCHANGED <<known, remote, args, svc_vars, fs, sv_vars, san_vars>>
    /\ UNCHANGED <<arg_df, orig, min_price, max_price, idx, cl_pc, cl_ret, cl_exc,
                   first_ret>>

\* line 55: df = clean_dataset(df, args.min_price, args.max_price), the call
MainCallClean ==
    /\ pc = "line55"
    /\ trace' = Append(trace, "clean")
    /\ arg_df' = df
    /\ orig' = heap[df]
    /\ min_price' = args.min_price
    /\ max_price' = args.max_price
    /\ cl_pc' = "line20"
    /\ pc' = "in_clean"
    /\ UNCHANGED <<heap, df, idx, cl_ret, cl_exc, first_ret>>
    /\ UNCHANGED <<known, remote, args, failed, error, svc_vars, fs, sv_vars, san_vars>>

\* main going on to line 59 although clean_dataset raised
MainCleanReturnSwallow ==
    /\ pc = "in_clean"
    /\ cl_pc \in {"returned", "raised"}
    /\ IF cl_pc = "returned"
       THEN /\ df' = cl_ret
            /\ UNCHANGED <<failed, error>>
       ELSE /\ failed' = "clean"
            /\ error' = cl_exc
            /\ UNCHANGED df
    /\ pc' = "line59"
    /\ UNCHANGED <<heap, arg_df, orig, min_price, max_price, idx, cl_pc, cl_ret,
                   cl_exc, first_ret>>
    /\ UNCHANGED <<known, remote, args, trace, svc_vars, fs, sv_vars, san_vars>>

\* line 55, the return: df is rebound, or the exception propagates
MainCleanReturn ==
    /\ pc = "in_clean"
    /\ cl_pc \in {"returned", "raised"}
    /\ IF cl_pc = "returned"
       THEN /\ df' = cl_ret
            /\ pc' = "line59"
            /\ UNCHANGED <<failed, error>>
       ELSE /\ Raise("clean", cl_exc)
            /\ UNCHANGED df
    /\ UNCHANGED <<heap, arg_df, orig, min_price, max_price, idx, cl_pc, cl_ret,
                   cl_exc, first_ret>>
    /\ UNCHANGED <<known, remote, args, trace, svc_vars, fs, sv_vars, san_vars>>

\* lines 58-59: df.to_csv("clean_sample.csv", index=False)
MainToCsv ==
    /\ pc = "line59"
    /\ trace' = Append(trace, "write")
    /\ \E ok \in BOOLEAN :
          IF ok
          THEN /\ fs' = fs \cup {StagingFile}
               /\ pc' = "line62"
               /\ UNCHANGED <<failed, error>>
          ELSE /\ Raise("write", "LocalIO")
               /\ UNCHANGED fs
    /\ UNCHANGED <<known, remote, args, svc_vars>>
    /\ UNCHANGED <<san_vars, cl_vars, sv_vars>>

\* line 62: save_artifact(run, args.output_artifact, ..., file_name), the call
MainCallSave ==
    /\ pc = "line62"
    /\ trace' = Append(trace, "publish")
    /\ file_path' = StagingFile
    /\ art' = [name |-> "clean_sample.csv", type |-> "clean_sample",
               description |-> "cleaned", files |-> {}]
    /\ sv_pc' = "line40"
    /\ pc' = "in_save"
    /\ UNCHANGED <<sv_exc, known, remote, args, failed, error, svc_vars, fs>>
    /\ UNCHANGED <<san_vars, cl_vars>>

\* line 62, the return: main goes on, or the exception propagates
MainSaveReturn ==
    /\ pc = "in_save"
    /\ sv_pc \in {"returned", "raised"}
    /\ IF sv_pc = "returned"
       THEN /\ pc' = "line65"
            /\ UNCHANGED <<failed, error>>
       ELSE Raise("publish", sv_exc)
    /\ UNCHANGED <<known, remote, args, trace, svc_vars, fs>>
    /\ UNCHANGED <<san_vars, cl_vars, sv_vars>>

\* line 65: os.remove(file_name)
MainRemove ==
    /\ pc = "line65"
    /\ trace' = Append(trace, "delete")
    /\ \E ok \in BOOLEAN :
          IF ok /\ StagingFile \in fs
          THEN /\ fs' = fs \ {StagingFile}
               /\ pc' = "exit"
               /\ UNCHANGED <<failed, error>>
          ELSE /\ Raise("delete", "LocalIO")
               /\ UNCHANGED fs
    /\ UNCHANGED <<known, remote, args, svc_vars>>
    /\ UNCHANGED <<san_vars, cl_vars, sv_vars>>

\* the run is left open when the block is left by an exception
\* (run = wandb.init(...); ...; run.finish() in place of the with statement)
MainExitOpenOnError ==
    /\ pc = "exit"
    /\ trace' = IF failed = "none" THEN Append(trace, "close") ELSE trace
    /\ run' = IF failed = "none" THEN "closed" ELSE run
    /\ pc' = "done"
    /\ UNCHANGED <<known, remote, args, failed, error, logged, ops, fs>>
    /\ UNCHANGED <<san_vars, cl_vars, sv_vars>>

\* line 48, leaving the with block: Run.__exit__ finishes the run and returns
\* False on an exception, which therefore propagates
MainExit ==
    /\ pc = "exit"
    /\ trace' = Append(trace, "close")
    /\ run' = "closed"
    /\ pc' = "done"
    /\ UNCHANGED <<known, remote, args, failed, error, logged, ops, fs>>
    /\ UNCHANGED <<san_vars, cl_vars, sv_vars>>

MainStep ==
    \/ MainOpenRun
    \/ DownloadUseArtifact
    \/ DownloadFilePath
    \/ MainReadCsv
    \/ MainCallClean
    \/ MainCleanReturn
    \/ MainToCsv
    \/ MainCallSave
    \/ MainSaveReturn
    \/ MainRemove
    \/ MainExit

(***************************************************************************)
(* Specifications                                                          *)
(***************************************************************************)
\* one call of sanitize_path
InitSanitize ==
    /\ SanInit /\ CleanIdle /\ SaveIdle /\ MainIdle
    /\ fs = {} /\ run = "none" /\ logged = {} /\ ops = << >>
NextSanitize == SanitizePath
SpecSanitize == InitSanitize /\ [][NextSanitize]_vars

\* clean_dataset called on a frame, then on its own result
InitClean ==
    /\ SanIdle /\ CleanInit /\ SaveIdle /\ MainIdle
    /\ fs = {} /\ run = "none" /\ logged = {} /\ ops = << >>
NextClean == CleanStep \/ CleanAgain
SpecClean == InitClean /\ [][NextClean]_vars

\* save_artifact called on an open run
InitSave ==
    /\ SanIdle /\ CleanIdle /\ SaveInit /\ MainIdle
    /\ fs \in SUBSET Paths /\ run = "open" /\ logged = {} /\ ops = << >>
NextSave == SaveStep
SpecSave == InitSave /\ [][NextSave]_vars

\* the script: main(args)
Init ==
    /\ SanIdle /\ CleanIdle /\ SaveIdle /\ MainInit
    /\ fs = {} /\ run = "none" /\ logged = {} /\ ops = << >>
Next == MainStep \/ CleanStep \/ SaveStep
Spec == Init /\ [][Next]_vars

(***************************************************************************)
(* Properties                                                              *)
(***************************************************************************)
InRange(c)  == c.t = "num" /\ min_price <= c.v /\ c.v <= max_price
Out         == heap[cl_ret].rows
Retained    == {j \in 1..Len(orig.rows) : InRange(orig.rows[j].cells["price"])}
\* the row of the caller's frame that carries the index label k
OrigRow(k)  == orig.rows[CHOOSE j \in 1..Len(orig.rows) : orig.rows[j].index = k]
HasLabel(k) == \E j \in 1..Len(orig.rows) : orig.rows[j].index = k
Prices(rows) == [i \in 1..Len(rows) |-> rows[i].cells["price"]]

\* C1: when clean_dataset returns, its result holds exactly the rows of the
\* caller's frame whose price p satisfies min_price <= p <= max_price, both
\* bounds inclusive, in their order: every returned row is in range, every row
\* in range is returned once, a row with a missing price is not returned; and
\* prices 5, 50, 500, 5000 with bounds [10, 1000] give the rows 50 and 500.
C1_FilterExact ==
    cl_pc = "returned" =>
        /\ \A i \in 1..Len(Out) : InRange(Out[i].cells["price"])
        /\ Len(Out) = Cardinality(Retained)
        /\ \A j \in Retained : \E i \in 1..Len(Out) :
              /\ Out[i].index = orig.rows[j].index
              /\ Out[i].cells["price"] = orig.rows[j].cells["price"]
        /\ \A i \in 1..Len(Out) : Out[i].cells["price"] # NaN
        /\ (orig = ExampleFrame /\ min_price = 10 /\ max_price = 1000)
              => Prices(Out) = <<Num(50), Num(500)>>

C1_Witness ==
    /\ cl_pc = "returned"
    /\ orig = ExampleFrame
    /\ min_price = 10 /\ max_price = 1000
    /\ Prices(Out) = <<Num(50), Num(500)>>

\* C7: clean_dataset applied to its own result with the same bounds returns
\* (it does not raise) a frame equal to that result: the same columns, rows,
\* index labels and cell values, the converted last_review values included.
C7_Idempotent ==
    (first_ret # 0 /\ cl_pc \in {"returned", "raised"}) =>
        /\ cl_pc = "returned"
        /\ heap[cl_ret] = heap[first_ret]

C7_Witness ==
    /\ first_ret # 0
    /\ cl_pc = "returned"
    /\ cl_ret # first_ret
    /\ \E i \in 1..Len(Out) : Out[i].cells["last_review"].t = "ts"
    /\ \E i \in 1..Len(Out) : Out[i].cells["last_review"] = NaT

\* C8: clean_dataset never changes the caller's frame, and what it returns is
\* another object with at most as many rows, the same columns, and in every
\* row the cells of the caller's row of that label, last_review apart.
C8_CallerUnchanged ==
    cl_pc # "idle" =>
        /\ heap[arg_df] = orig
        /\ cl_pc = "returned" =>
              /\ cl_ret # arg_df
              /\ Len(Out) <= Len(orig.rows)
              /\ heap[cl_ret].columns = orig.columns
              /\ \A i \in 1..Len(Out) :
                    /\ HasLabel(Out[i].index)
                    /\ DOMAIN Out[i].cells = orig.columns
                    /\ \A c \in orig.columns \ {"last_review"} :
                          Out[i].cells[c] = OrigRow(Out[i].index).cells[c]

C8_Witness ==
    /\ cl_pc = "returned"
    /\ first_ret = 0
    /\ Len(Out) < Len(orig.rows)
    /\ \E i \in 1..Len(Out) :
          /\ Out[i].cells["last_review"].t = "ts"
          /\ OrigRow(Out[i].index).cells["last_review"].t = "str"

\* whether some retained row of the caller's frame has a last_review that
\* names no day
RetainedUnparsable ==
    /\ "price" \in orig.columns
    /\ "last_review" \in orig.columns
    /\ \E j \in Retained : Unparsable(orig.rows[j].cells["last_review"])

FailFast ==
    /\ RetainedUnparsable => cl_pc \notin {"line26", "returned"}
    /\ (cl_pc = "raised" /\ cl_exc = "ValueError") => RetainedUnparsable

\* C9 as stated: the conversion is fail-fast, and whenever clean_dataset
\* returns every row of the result has a date in last_review, the rows whose
\* last_review was missing included.
C9_Original ==
    /\ FailFast
    /\ cl_pc = "returned" =>
          \A i \in 1..Len(Out) : Out[i].cells["last_review"].t = "ts"

\* C9, amended: the conversion is fail-fast (a retained row whose last_review
\* cannot be parsed makes the call raise, and only that does), and whenever
\* clean_dataset returns, a row whose last_review was present holds the date
\* it names, while a row whose last_review was missing holds NaT, no date.
C9_Amended ==
    /\ FailFast
    /\ cl_pc = "returned" =>
          \A i \in 1..Len(Out) :
              LET was == OrigRow(Out[i].index).cells["last_review"]
                  now == Out[i].cells["last_review"]
              IN  \/ was.t \in {"NaN", "NaT"} /\ now = NaT
                  \/ was.t = "str" /\ ValidDate(was.v) /\ now = Ts(was.v)
                  \/ was.t = "ts" /\ now = was

C9_Witness ==
    /\ cl_pc = "returned"
    /\ first_ret = 0
    /\ \E i \in 1..Len(Out) :
          /\ OrigRow(Out[i].index).cells["last_review"] = NaN
          /\ Out[i].cells["last_review"] = NaT
    /\ \E i \in 1..Len(Out) : Out[i].cells["last_review"].t = "ts"

UserHomeX == <<"/", "h", "/", "u", "/", "x">>

C6_MissingFile ==
    file_path \notin fs =>
        /\ sv_pc \notin {"line42", "returned"}
        /\ logged = {}
        /\ ops = << >>
        /\ sv_pc = "raised" => sv_exc = "LocalIO"

C6_Witness ==
    /\ sv_pc = "raised"
    /\ file_path \notin fs
    /\ sv_exc = "LocalIO"
    /\ logged = {}

InTrace(step) == \E i \in 1..Len(trace) : trace[i] = step
\* the steps started, the closing of the run apart
Body ==
    IF trace # << >> /\ trace[Len(trace)] = "close"
    THEN SubSeq(trace, 1, Len(trace) - 1) ELSE trace
IsPrefix(a, b) == Len(a) <= Len(b) /\ SubSeq(b, 1, Len(a)) = a

\* C2: once clean_sample.csv has been written and the publish step reached,
\* main does not end, by a normal or an error exit of save_artifact, with
\* the file still on disk.
C2_StagingFileDeleted ==
    (pc = "done" /\ InTrace("publish") /\ failed \in {"none", "publish"})
        => StagingFile \notin fs

\* C4: when os.remove fails after a successful publish, main ends without an
\* error.
C4_CleanupNotFatal ==
    (pc = "done" /\ failed = "delete") => error = "none"

\* the order of the steps, and what a failing step does to the run
StepOrder ==
    /\ IsPrefix(Body, Order)
    /\ ~InTrace("close") => pc # "done" \/ failed = "open"
    /\ failed # "none" =>
          /\ Body # << >> /\ Body[Len(Body)] = failed
          /\ error # "none"
          /\ failed = "clean" => error = cl_exc
          /\ failed = "publish" => error = sv_exc
    /\ (pc = "done" /\ failed = "none") =>
          /\ trace = Order \o <<"close">>
          /\ error = "none"
    /\ ~known =>
          /\ ~InTrace("load") /\ ~InTrace("clean")
          /\ ~InTrace("write") /\ ~InTrace("publish")
          /\ cl_pc = "idle" /\ sv_pc = "idle" /\ StagingFile \notin fs
          /\ failed = "fetch" => error = "ArtifactNotFound"

\* C3 as stated: the steps run in the order open, fetch, load, clean, write,
\* publish, delete, close, each only after the one before it succeeded: after
\* a failed step no later step is started, close included.
C3_Original ==
    /\ StepOrder
    /\ InTrace("close") => failed = "none"

\* C3, amended: the steps run in the order open, fetch, load, clean, write,
\* publish, delete, each only after the one before it succeeded; a failed
\* step is the last of them to start and its error is what ends main; only
\* the closing of the run still follows a failed step.
C3_Amended ==
    /\ StepOrder
    /\ (pc = "done" /\ failed \notin {"none", "open"}) =>
          trace = SubSeq(Order, 1, Len(Body)) \o <<"close">>

C3_Witness ==
    /\ pc = "done"
    /\ ~known
    /\ failed = "fetch"
    /\ error = "ArtifactNotFound"
    /\ trace = <<"open", "fetch", "close">>

\* C5: the run main opened is closed when main ends, by whatever path, and
\* every use_artifact and log_artifact happens while the run is open.
C5_RunScoped ==
    /\ pc = "done" => (run = "closed" \/ (failed = "open" /\ run = "none"))
    /\ \A i \in 1..Len(ops) : ops[i][2] = "open"
    /\ run = "closed" => pc = "done"
    /\ run = "none" => ops = << >>

C5_Witness ==
    /\ pc = "done"
    /\ failed = "publish"
    /\ run = "closed"
    /\ Len(ops) = 2

====
